---- MODULE Spec2Model ----
(***************************************************************************)
(* Lane simulation and collision engine of crossy_roads (src/src/---.rs):  *)
(* lane generation (BaseRow::randomized_objects), the moving-lane tick     *)
(* (DynamicRow::tick / update_row) and the frame loop of GameState::run.   *)
(*                                                                         *)
(* The specifications share the definitions below:                         *)
(*   Spec     - the game: GameState::new followed by the frames of run()   *)
(*   FairSpec - Spec with the steps run() takes by itself weakly fair      *)
(*   GenSpec  - BaseRow::randomized_objects applied to bounded draws       *)
(*   TickSpec - one row ticked repeatedly, with interval k                 *)
(*   MainTickSpec - the same for the tick() of the draft src/main.rs       *)
(* Each specification holds the variables of the others at idle values.    *)
(* A Vec<bool> is a sequence; column c of the code is index c + 1 here.    *)
(* An Option<T> is a set with at most one element ({} is None).            *)
(***************************************************************************)
EXTENDS Integers, Sequences, FiniteSets, TLC

VARIABLES
    gameboard,          \* GameState.gameboard: Vec<Box<dyn RowType>>
    player,             \* GameState.player: (column, row)
    jh,                 \* KeyReader.jh: Option<JoinHandle<Key>> (the task's name)
    listeners,          \* the await_key_press tasks spawned and not finished
    player_score,       \* GameState.player_score (u32; kept below MaxScore + 1)
    game_over,          \* GameState.game_over
    game_over_reason,   \* GameState.game_over_reason
    last_row_type,      \* GameState.last_row_type: Option<u8>
    pc,                 \* position of run(): "tick", "update", "check", "over", "exit"
    key,                \* the Option<Key> read_key() returned in this frame
    prev_player,        \* the player position when update_player was entered
    frames,             \* frames started so far (bounded by MaxFrames)
    injected,           \* frames in which update_row drew an occupied cell (bounded)
    g_env,              \* randomized_objects: environment_label argument
    g_draw,             \* randomized_objects: the 14 gen_bool(0.2) draws
    g_out,              \* randomized_objects: the objects returned
    g_pc,               \* randomized_objects: "drawn", then "done"
    t_lane,             \* a lane ticked on its own
    t_calls,            \* tick() calls made on t_lane
    t_result,           \* Option<bool> returned by the last tick() on t_lane
    t_fresh             \* Option<bool>: the gen_bool(0.2) drawn by that tick(), if any

gameVars == <<gameboard, player, jh, listeners, player_score, game_over,
              game_over_reason, last_row_type, pc, key, prev_player, frames, injected>>
genVars == <<g_env, g_draw, g_out, g_pc>>
tickVars == <<t_lane, t_calls, t_result, t_fresh>>
vars == <<gameVars, genVars, tickVars>>

(***************************************************************************)
(* Program constants.                                                      *)
(***************************************************************************)
GRASS == "GRASS"
TREE == "TREE"
ROAD == "ROAD"
CAR == "CAR"
WATER == "WATER"
PAD == "PAD"

Width == 14
MaxObjects == 3
RowInterval == 2
FrontierRow == 3
SpawnColumn == 7
LastColumn == 13

(***************************************************************************)
(* Bounds of the model.                                                    *)
(*   MaxFrames     frames run() starts                                     *)
(*   MaxScore      scrolls (the score counts them)                         *)
(*   MaxInjected   frames in which update_row draws an occupied cell       *)
(*   MaxFailFrame  last frame in which the listener task can have panicked *)
(*   MaxDrawn      occupied cells among the 14 draws of GenSpec            *)
(*   MaxInterval   largest interval of a row of TickSpec                   *)
(*   MaxCalls      tick() calls of TickSpec                                *)
(***************************************************************************)
MaxFrames == 7
MaxScore == 1
MaxInjected == 1
MaxFailFrame == 2
MaxDrawn == 5
MaxInterval == 3
MaxCalls == 7

Columns == 0..(Width - 1)
None == {}
Some(x) == {x}
Keys == {"Up", "Left", "Down", "Right", "Escape", "Other"}

(***************************************************************************)
(* Vec<bool> helpers.                                                      *)
(***************************************************************************)
At(objects, c) == objects[c + 1]
TrueColumns(objects) == {c \in 0..(Len(objects) - 1) : At(objects, c)}
TrueCount(objects) == Cardinality(TrueColumns(objects))
FromColumns(S) == [i \in 1..Width |-> (i - 1) \in S]

(***************************************************************************)
(* BaseRow::randomized_objects: the set of objects vectors it can return.  *)
(* draw is the outcome of the 14 gen_bool calls and indexes the outcomes   *)
(* allowed to gen_range(0..14) for the forced log; the gen_range draws of  *)
(* the removal loop are resolved inside RemoveExcess (a draw that hits an  *)
(* unoccupied cell changes nothing).                                       *)
(***************************************************************************)
\* ForceLog with the label test on the object label of a stream (PAD).
ForceLogWrongLabel(draw, index, environment_label) ==
    IF environment_label = PAD /\ TrueColumns(draw) = {}
    THEN [draw EXCEPT ![index + 1] = TRUE]
    ELSE draw

ForceLog(draw, index, environment_label) ==
    IF environment_label = WATER /\ TrueColumns(draw) = {}
    THEN [draw EXCEPT ![index + 1] = TRUE]
    ELSE draw

\* RemoveExcess with the loop test off by one (true_count > 4).
RECURSIVE RemoveExcessLate(_)
RemoveExcessLate(objects) ==
    IF TrueCount(objects) > MaxObjects + 1
    THEN UNION {RemoveExcessLate([objects EXCEPT ![index + 1] = FALSE]) :
                    index \in TrueColumns(objects)}
    ELSE {objects}

RECURSIVE RemoveExcess(_)
RemoveExcess(objects) ==
    IF TrueCount(objects) > MaxObjects
    THEN UNION {RemoveExcess([objects EXCEPT ![index + 1] = FALSE]) :
                    index \in TrueColumns(objects)}
    ELSE {objects}

RandomizedObjects(draw, indexes, environment_label) ==
    UNION {RemoveExcess(forced) :
             forced \in {ForceLog(draw, index, environment_label) : index \in indexes}}

(***************************************************************************)
(* Rows.  Stream::new, Road::new, Grass::new build the three row types;    *)
(* a Grass row has no DynamicRow and its direction, interval and           *)
(* tick_count fields stay at their idle values.                            *)
(***************************************************************************)
StreamNew(objects, interval, direction) ==
    [type |-> "Stream", objects |-> objects, object_label |-> PAD,
     environment_label |-> WATER, direction |-> direction,
     interval |-> interval, tick_count |-> 0]

RoadNew(objects, interval, direction) ==
    [type |-> "Road", objects |-> objects, object_label |-> CAR,
     environment_label |-> ROAD, direction |-> direction,
     interval |-> interval, tick_count |-> 0]

GrassNew(objects) ==
    [type |-> "Grass", objects |-> objects, object_label |-> TREE,
     environment_label |-> GRASS, direction |-> FALSE,
     interval |-> 0, tick_count |-> 0]

\* DynamicRow::tick: the row after the call and the Option<bool> returned.
DynamicRowTick(row) ==
    IF row.tick_count = row.interval
    THEN [row |-> [row EXCEPT !.tick_count = 0], result |-> Some(row.direction)]
    ELSE [row |-> [row EXCEPT !.tick_count = (row.tick_count + 1) % 256],
          result |-> None]

\* UpdateRow with the new cell inserted in front and no cell dropped.
UpdateRowInserting(row, fresh) ==
    [row EXCEPT !.objects = <<fresh>> \o row.objects]

\* UpdateRow with the cell that leaves the row fed back in (a rotation).
UpdateRowRotating(row, fresh) ==
    LET n == Len(row.objects) IN
    IF row.direction
    THEN [row EXCEPT !.objects =
             [i \in 1..n |-> IF i = n THEN row.objects[1] ELSE row.objects[i + 1]]]
    ELSE [row EXCEPT !.objects =
             [i \in 1..n |-> IF i = 1 THEN row.objects[n] ELSE row.objects[i - 1]]]

\* DynamicRow::update_row: fresh is the outcome of gen_bool(0.2).
UpdateRow(row, fresh) ==
    LET n == Len(row.objects) IN
    IF row.direction
    THEN [row EXCEPT !.objects =
             [i \in 1..n |-> IF i = LastColumn + 1 THEN fresh
                             ELSE IF i < n THEN row.objects[i + 1]
                             ELSE row.objects[i]]]
    ELSE [row EXCEPT !.objects =
             [i \in 1..n |-> IF i = 1 THEN fresh ELSE row.objects[i - 1]]]

\* RowTick with a Grass row ticked like a moving row.
RowTickGrassMoves(row, fresh) ==
    LET t == DynamicRowTick(row) IN
    IF t.result # None
    THEN [row |-> UpdateRow(t.row, fresh), result |-> t.result]
    ELSE [row |-> t.row, result |-> None]

\* RowType::tick of Stream, Road and Grass.
RowTick(row, fresh) ==
    IF row.type = "Grass"
    THEN [row |-> row, result |-> None]
    ELSE LET t == DynamicRowTick(row) IN
         IF t.result # None
         THEN [row |-> UpdateRow(t.row, fresh), result |-> t.result]
         ELSE [row |-> t.row, result |-> None]

\* RowType::check_position.
CheckPosition(row, column_index) ==
    IF column_index < Len(row.objects)
    THEN Some(At(row.objects, column_index))
    ELSE None

(***************************************************************************)
(* GameState::create_random_row: the rows it can return when row_type,     *)
(* draw and direction are the outcomes of its random draws.                *)
(***************************************************************************)
RowTypeRange(last) == IF last = Some(0) THEN 1..2 ELSE 0..2

CreateRandomRow(row_type, draw, indexes, direction) ==
    IF row_type = 0
    THEN {StreamNew(o, RowInterval, direction) : o \in RandomizedObjects(draw, indexes, WATER)}
    ELSE IF row_type = 1
    THEN {RoadNew(o, RowInterval, direction) : o \in RandomizedObjects(draw, indexes, ROAD)}
    ELSE {GrassNew(o) : o \in RandomizedObjects(draw, indexes, GRASS)}

\* The last_row_type a row's environment_label maps to (update_player).
RowTypeOf(row) ==
    IF row.environment_label = WATER THEN Some(0)
    ELSE IF row.environment_label = ROAD THEN Some(1)
    ELSE Some(2)

(***************************************************************************)
(* Random outcomes the game specification draws lanes from.  gen_bool(0.2) *)
(* comes up true only at the columns of DrawColumns (and the forced log    *)
(* lands there).  In GameState::new the five create_random_row(None)       *)
(* calls draw their row types from InitRowTypes (rows 3 and 4 of any type, *)
(* row 6 of row 4's type, rows 2 and 5 grass), and the seven rows share    *)
(* one outcome of the object draws and of the direction.                   *)
(***************************************************************************)
DrawColumns == {SpawnColumn}
BoardDraws == {FromColumns(S) : S \in SUBSET DrawColumns}
EmptyDraw == FromColumns({})
InitRowTypes ==
    {t \in [2..6 -> RowTypeRange(None)] : t[2] = 2 /\ t[5] = 2 /\ t[6] = t[4]}

RandomRows(last) ==
    UNION {CreateRandomRow(rt, d, DrawColumns, dir) :
             rt \in RowTypeRange(last), d \in BoardDraws, dir \in BOOLEAN}

(***************************************************************************)
(* KeyReader.  tokio::spawn names the new task with a name no running task *)
(* has; KeyReader::new spawns the first listener; a handle that has been   *)
(* awaited to completion leaves its task finished.                         *)
(***************************************************************************)
NewTask(tasks) == CHOOSE n \in 0..Cardinality(tasks) : n \notin tasks
KeyReaderNew == Some(NewTask({}))

\* Joined with the awaited task left running.
JoinedStillRunning(tasks, handle) == tasks

Joined(tasks, handle) == tasks \ handle

(***************************************************************************)
(* GameState::new.  The listener task is spawned (KeyReader::new), the     *)
(* bottom row has column 7 cleared and the player stands on it.            *)
(***************************************************************************)
\* BottomRow without the assignment bottom_row.objects[7] = false.
BottomRowUncleared(objects) == GrassNew(objects)

BottomRow(objects) == GrassNew([objects EXCEPT ![SpawnColumn + 1] = FALSE])

GameNew ==
    /\ \E d \in BoardDraws, dir \in BOOLEAN :
         \E row_types \in InitRowTypes :
            /\ \E bottom_row \in RandomizedObjects(d, DrawColumns, GRASS),
                  r1 \in CreateRandomRow(2, d, DrawColumns, dir),
                  r2 \in CreateRandomRow(row_types[2], d, DrawColumns, dir),
                  r3 \in CreateRandomRow(row_types[3], d, DrawColumns, dir),
                  r4 \in CreateRandomRow(row_types[4], d, DrawColumns, dir),
                  r5 \in CreateRandomRow(row_types[5], d, DrawColumns, dir),
                  r6 \in CreateRandomRow(row_types[6], d, DrawColumns, dir) :
                 gameboard = <<BottomRow(bottom_row), r1, r2, r3, r4, r5, r6>>
    /\ player = <<SpawnColumn, 0>>
    /\ jh = KeyReaderNew
    /\ listeners = KeyReaderNew
    /\ player_score = 0
    /\ game_over = FALSE
    /\ last_row_type = None
    /\ game_over_reason = ""

GenIdle ==
    /\ g_env = GRASS
    /\ g_draw = EmptyDraw
    /\ g_out = EmptyDraw
    /\ g_pc = "idle"

TickIdle ==
    /\ t_lane = GrassNew(EmptyDraw)
    /\ t_calls = 0
    /\ t_result = None
    /\ t_fresh = None

Init ==
    /\ GameNew
    /\ pc = "tick"
    /\ key = None
    /\ prev_player = <<SpawnColumn, 0>>
    /\ frames = 0
    /\ injected = 0
    /\ GenIdle
    /\ TickIdle

(***************************************************************************)
(* GameState::run, first part of a frame: print_gameboard (no effect on    *)
(* the state) and the loop calling tick() on every row.  fresh is the   *)
(* gen_bool(0.2) outcome the rows that shift in this frame draw in         *)
(* update_row (one outcome for the frame, true in at most MaxInjected      *)
(* frames).                                                                *)
(***************************************************************************)
TickRows ==
    /\ pc = "tick"
    /\ frames < MaxFrames
    /\ \E fresh \in BOOLEAN :
         LET ticked == [i \in 1..Len(gameboard) |-> RowTick(gameboard[i], fresh)]
         IN /\ fresh => /\ injected < MaxInjected
                        /\ \E i \in 1..Len(gameboard) : ticked[i].result # None
            /\ gameboard' = [i \in 1..Len(gameboard) |-> ticked[i].row]
            /\ injected' = IF fresh THEN injected + 1 ELSE injected
    /\ frames' = frames + 1
    /\ pc' = "update"
    /\ key' = None
    /\ prev_player' = player
    /\ UNCHANGED <<player, jh, listeners, player_score, game_over,
                   game_over_reason, last_row_type>>
    /\ UNCHANGED <<genVars, tickVars>>

(***************************************************************************)
(* GameState::update_player.  read_key() awaits the listener task: the     *)
(* await resumes with Ok(key) when a key is pressed (the environment's     *)
(* move), with Err when the task panicked, and read_key() returns None at  *)
(* once when no handle is left.                                            *)
(***************************************************************************)
\* NextPosition with 's' at row 0 wrapping around to the frontier row.
NextPositionWrapping(k, p) ==
    IF k = "Up" /\ p[2] < FrontierRow THEN <<p[1], p[2] + 1>>
    ELSE IF k = "Left" /\ p[1] > 0 THEN <<p[1] - 1, p[2]>>
    ELSE IF k = "Down" THEN <<p[1], (p[2] + FrontierRow) % (FrontierRow + 1)>>
    ELSE IF k = "Right" /\ p[1] < LastColumn THEN <<p[1] + 1, p[2]>>
    ELSE p

\* The match on the key, all arms but the scroll and Escape.
NextPosition(k, p) ==
    IF k = "Up" /\ p[2] < FrontierRow THEN <<p[1], p[2] + 1>>
    ELSE IF k = "Left" /\ p[1] > 0 THEN <<p[1] - 1, p[2]>>
    ELSE IF k = "Down" /\ p[2] > 0 THEN <<p[1], p[2] - 1>>
    ELSE IF k = "Right" /\ p[1] < LastColumn THEN <<p[1] + 1, p[2]>>
    ELSE p

\* The obstacle check on next_position and the assignment to self.player.
\* Blocked with the lookup made in the player's row, not the target's.
BlockedInPlayerRow(board, next_position) ==
    CheckPosition(board[player[2] + 1], next_position[1]) = Some(TRUE)

Blocked(board, next_position) ==
    CheckPosition(board[next_position[2] + 1], next_position[1]) = Some(TRUE)

CommitMove(board, p, next_position) ==
    IF Blocked(board, next_position) THEN p ELSE next_position

\* ScrollBoard with the new row put where the removed one was.
ScrollBoardAtBottom(board, new_row) == <<new_row>> \o Tail(board)

\* The arm of 'w' at row 3: the board after remove(0) and push(new_row).
ScrollBoard(board, new_row) == Append(Tail(board), new_row)

UpdatePlayerKey ==
    /\ pc = "update"
    /\ jh # None
    /\ \E k \in Keys :
         /\ key' = Some(k)
         /\ jh' = Some(NewTask(Joined(listeners, jh)))
         /\ listeners' = Joined(listeners, jh) \cup jh'
         /\ prev_player' = player
         /\ IF k = "Escape"
            THEN /\ pc' = "exit"
                 /\ UNCHANGED <<gameboard, player, player_score, last_row_type>>
            ELSE IF k = "Up" /\ player[2] = FrontierRow
            THEN /\ player_score < MaxScore
                 /\ \E new_row \in RandomRows(last_row_type) :
                      /\ gameboard' = ScrollBoard(gameboard, new_row)
                      /\ last_row_type' = RowTypeOf(gameboard'[7])
                 /\ player_score' = player_score + 1
                 /\ player' = CommitMove(gameboard', player, player)
                 /\ pc' = "check"
            ELSE /\ player' = CommitMove(gameboard, player, NextPosition(k, player))
                 /\ pc' = "check"
                 /\ UNCHANGED <<gameboard, player_score, last_row_type>>
    /\ UNCHANGED <<game_over, game_over_reason, frames, injected>>
    /\ UNCHANGED <<genVars, tickVars>>

UpdatePlayerJoinError ==
    /\ pc = "update"
    /\ jh # None
    /\ frames <= MaxFailFrame
    /\ jh' = None
    /\ listeners' = Joined(listeners, jh)
    /\ key' = None
    /\ prev_player' = player
    /\ pc' = "check"
    /\ UNCHANGED <<gameboard, player, player_score, last_row_type,
                   game_over, game_over_reason, frames, injected>>
    /\ UNCHANGED <<genVars, tickVars>>

\* UpdatePlayerNoHandle with read_key() panicking on the missing handle.
UpdatePlayerNoHandlePanics ==
    /\ pc = "update"
    /\ jh = None
    /\ key' = None
    /\ prev_player' = player
    /\ pc' = "exit"
    /\ UNCHANGED <<gameboard, player, jh, listeners, player_score, last_row_type,
                   game_over, game_over_reason, frames, injected>>
    /\ UNCHANGED <<genVars, tickVars>>

UpdatePlayerNoHandle ==
    /\ pc = "update"
    /\ jh = None
    /\ key' = None
    /\ prev_player' = player
    /\ pc' = "check"
    /\ UNCHANGED <<gameboard, player, jh, listeners, player_score, last_row_type,
                   game_over, game_over_reason, frames, injected>>
    /\ UNCHANGED <<genVars, tickVars>>

(***************************************************************************)
(* GameState::run, end of a frame: the hazard evaluation on the player's   *)
(* cell, then the break or the 50 ms sleep.                                *)
(***************************************************************************)
\* HitByCar with the occupancy test inverted.
HitByCarInverted(board, p) ==
    /\ board[p[2] + 1].environment_label = ROAD
    /\ CheckPosition(board[p[2] + 1], p[1]) = Some(FALSE)

HitByCar(board, p) ==
    /\ board[p[2] + 1].environment_label = ROAD
    /\ CheckPosition(board[p[2] + 1], p[1]) = Some(TRUE)

\* DrownedInWater with the occupancy test inverted.
DrownedInWaterInverted(board, p) ==
    /\ board[p[2] + 1].environment_label = WATER
    /\ CheckPosition(board[p[2] + 1], p[1]) = Some(TRUE)

DrownedInWater(board, p) ==
    /\ board[p[2] + 1].environment_label = WATER
    /\ CheckPosition(board[p[2] + 1], p[1]) = Some(FALSE)

\* HazardCheck with the rows ticked once more before the evaluation.
HazardCheckTicking ==
    /\ pc = "check"
    /\ gameboard' = [i \in 1..Len(gameboard) |-> RowTick(gameboard[i], FALSE).row]
    /\ IF HitByCar(gameboard', player)
       THEN game_over' = TRUE /\ game_over_reason' = "Hit by a car"
       ELSE IF DrownedInWater(gameboard', player)
       THEN game_over' = TRUE /\ game_over_reason' = "Drowned in water"
       ELSE UNCHANGED <<game_over, game_over_reason>>
    /\ pc' = IF game_over' THEN "over" ELSE "tick"
    /\ UNCHANGED <<player, jh, listeners, player_score, last_row_type,
                   key, prev_player, frames, injected>>
    /\ UNCHANGED <<genVars, tickVars>>

\* HazardCheck without the break on game_over.
HazardCheckNoBreak ==
    /\ pc = "check"
    /\ IF HitByCar(gameboard, player)
       THEN game_over' = TRUE /\ game_over_reason' = "Hit by a car"
       ELSE IF DrownedInWater(gameboard, player)
       THEN game_over' = TRUE /\ game_over_reason' = "Drowned in water"
       ELSE UNCHANGED <<game_over, game_over_reason>>
    /\ pc' = "tick"
    /\ UNCHANGED <<gameboard, player, jh, listeners, player_score, last_row_type,
                   key, prev_player, frames, injected>>
    /\ UNCHANGED <<genVars, tickVars>>

\* HazardCheck also run after Key::Escape.
HazardCheckAfterExit ==
    /\ pc \in {"check", "exit"}
    /\ IF HitByCar(gameboard, player)
       THEN game_over' = TRUE /\ game_over_reason' = "Hit by a car"
       ELSE IF DrownedInWater(gameboard, player)
       THEN game_over' = TRUE /\ game_over_reason' = "Drowned in water"
       ELSE UNCHANGED <<game_over, game_over_reason>>
    /\ pc' = IF game_over' THEN "over" ELSE "tick"
    /\ UNCHANGED <<gameboard, player, jh, listeners, player_score, last_row_type,
                   key, prev_player, frames, injected>>
    /\ UNCHANGED <<genVars, tickVars>>

HazardCheck ==
    /\ pc = "check"
    /\ IF HitByCar(gameboard, player)
       THEN game_over' = TRUE /\ game_over_reason' = "Hit by a car"
       ELSE IF DrownedInWater(gameboard, player)
       THEN game_over' = TRUE /\ game_over_reason' = "Drowned in water"
       ELSE UNCHANGED <<game_over, game_over_reason>>
    /\ pc' = IF game_over' THEN "over" ELSE "tick"
    /\ UNCHANGED <<gameboard, player, jh, listeners, player_score, last_row_type,
                   key, prev_player, frames, injected>>
    /\ UNCHANGED <<genVars, tickVars>>

Next ==
    \/ TickRows
    \/ UpdatePlayerKey
    \/ UpdatePlayerJoinError
    \/ UpdatePlayerNoHandle
    \/ HazardCheck

Spec == Init /\ [][Next]_vars

(***************************************************************************)
(* GenSpec: BaseRow::randomized_objects on its own.  The initial states    *)
(* hold the argument and the outcome of the 14 gen_bool draws (at most     *)
(* MaxDrawn of them true); Generate applies the function.                  *)
(***************************************************************************)
GameIdle ==
    /\ gameboard = <<>>
    /\ player = <<SpawnColumn, 0>>
    /\ jh = None
    /\ listeners = {}
    /\ player_score = 0
    /\ game_over = FALSE
    /\ game_over_reason = ""
    /\ last_row_type = None
    /\ pc = "idle"
    /\ key = None
    /\ prev_player = <<SpawnColumn, 0>>
    /\ frames = 0
    /\ injected = 0

GenInit ==
    /\ g_env \in {GRASS, ROAD, WATER}
    /\ g_draw \in {FromColumns(S) : S \in {T \in SUBSET Columns : Cardinality(T) <= MaxDrawn}}
    /\ g_out = EmptyDraw
    /\ g_pc = "drawn"
    /\ GameIdle
    /\ TickIdle

Generate ==
    /\ g_pc = "drawn"
    /\ g_out' \in RandomizedObjects(g_draw, Columns, g_env)
    /\ g_pc' = "done"
    /\ UNCHANGED <<g_env, g_draw>>
    /\ UNCHANGED <<gameVars, tickVars>>

GenNext == Generate

GenSpec == GenInit /\ [][GenNext]_vars

(***************************************************************************)
(* TickSpec: one row built by Stream::new, Road::new or Grass::new, with   *)
(* interval k in 1..MaxInterval, on which tick() is called MaxCalls times. *)
(* The draws of the row come up occupied at the two edges and at column 7  *)
(* (TickColumns), so that an object can leave the row within MaxCalls.     *)
(***************************************************************************)
TickColumns == {0, SpawnColumn, LastColumn}
TickDraws == {FromColumns(S) : S \in SUBSET TickColumns}

TickInit ==
    /\ \E d \in TickDraws, dir \in BOOLEAN, k \in 1..MaxInterval :
         t_lane \in UNION {{StreamNew(o, k, dir) : o \in RandomizedObjects(d, TickColumns, WATER)},
                           {RoadNew(o, k, dir) : o \in RandomizedObjects(d, TickColumns, ROAD)},
                           {GrassNew(o) : o \in RandomizedObjects(d, TickColumns, GRASS)}}
    /\ t_calls = 0
    /\ t_result = None
    /\ t_fresh = None
    /\ GameIdle
    /\ GenIdle

TickLane ==
    /\ t_calls < MaxCalls
    /\ \E fresh \in BOOLEAN :
         LET t == RowTick(t_lane, fresh)
         IN /\ t_lane' = t.row
            /\ t_result' = t.result
            /\ t_fresh' = IF t.result # None THEN Some(fresh) ELSE None
    /\ t_calls' = t_calls + 1
    /\ UNCHANGED <<gameVars, genVars>>

TickNext == TickLane

TickSpec == TickInit /\ [][TickNext]_vars

(***************************************************************************)
(* MainTickSpec: the tick() of src/main.rs (Stream::tick and Road::tick    *)
(* are the same code, Grass::tick returns None) called MaxCalls times on   *)
(* one row built as create_random_row of src/main.rs builds it: objects    *)
(* from randomized_objects (14 draws, no forced log, no cap), an interval  *)
(* in 1..MaxInterval and a direction.                                      *)
(***************************************************************************)
MainRowTick(row) ==
    IF row.type = "Grass"
    THEN [row |-> row, result |-> None]
    ELSE LET count == (row.tick_count + 1) % 256 IN
         IF count >= row.interval
         THEN [row |-> [row EXCEPT
                          !.tick_count = 0,
                          !.objects = IF row.direction
                                      THEN <<row.objects[Len(row.objects)]>> \o row.objects
                                      ELSE Append(row.objects, Head(row.objects))],
               result |-> Some(TRUE)]
         ELSE [row |-> [row EXCEPT !.tick_count = count], result |-> None]

MainTickInit ==
    /\ \E d \in TickDraws, dir \in BOOLEAN, k \in 1..MaxInterval :
         t_lane \in {StreamNew(d, k, dir), RoadNew(d, k, dir), GrassNew(d)}
    /\ t_calls = 0
    /\ t_result = None
    /\ t_fresh = None
    /\ GameIdle
    /\ GenIdle

MainTickLane ==
    /\ t_calls < MaxCalls
    /\ LET t == MainRowTick(t_lane)
       IN /\ t_lane' = t.row
          /\ t_result' = t.result
    /\ t_calls' = t_calls + 1
    /\ UNCHANGED t_fresh
    /\ UNCHANGED <<gameVars, genVars>>

MainTickNext == MainTickLane

MainTickSpec == MainTickInit /\ [][MainTickNext]_vars

(***************************************************************************)
(* FairSpec: the game under the scheduling the runtime guarantees.  The    *)
(* steps run() takes by itself are taken when enabled; a key press, and    *)
(* with it UpdatePlayerKey, is up to the player and a panic of the         *)
(* listener task up to the terminal, so neither is assumed to happen.      *)
(***************************************************************************)
FairSpec ==
    /\ Spec
    /\ WF_vars(TickRows)
    /\ WF_vars(UpdatePlayerNoHandle)
    /\ WF_vars(HazardCheck)

(***************************************************************************)
(* Vocabulary of the properties: the hazard class of a row, taken from the *)
(* row's type, and the occupancy of a cell, read from the objects vector.  *)
(***************************************************************************)
HazardClass(row) ==
    IF row.type = "Road" THEN "Lethal"
    ELSE IF row.type = "Stream" THEN "LethalUnlessOccupied"
    ELSE "Safe"

LaneOf(board, p) == board[p[2] + 1]
Occupied(board, p) == board[p[2] + 1].objects[p[1] + 1]
OccupiedCount(objects) == Cardinality({i \in 1..Len(objects) : objects[i]})

OnOccupiedRoad == HazardClass(LaneOf(gameboard, player)) = "Lethal" /\ Occupied(gameboard, player)
OnFreeWater ==
    HazardClass(LaneOf(gameboard, player)) = "LethalUnlessOccupied" /\ ~Occupied(gameboard, player)

\* The frame's hazard evaluation has run (and no row has ticked since).
FrameEvaluated == pc \in {"tick", "over"}
\* The key consumed in this frame, and whether it was 'w' at the frontier.
FrameKey == CHOOSE k \in key : TRUE
ScrollFrame == key = Some("Up") /\ prev_player[2] = FrontierRow
\* The cell an in-bounds move of this frame aimed at.
MoveTarget == NextPosition(FrameKey, prev_player)
InBoundsMove == key # None /\ ~ScrollFrame /\ MoveTarget # prev_player

(***************************************************************************)
(* C1: a moving lane with interval k that starts at phase 0 shifts on its  *)
(* tick() calls number k, 2k, 3k, ... and on no other call.                *)
(***************************************************************************)
C1_ShiftsOnMultiplesOfInterval ==
    (t_lane.type # "Grass" /\ t_calls > 0)
        => ((t_result # None) <=> (t_calls % t_lane.interval = 0))

(***************************************************************************)
(* C2: after the hazard evaluation of a frame the game is over exactly     *)
(* when the player's cell is an occupied road cell (cause "Hit by a car")  *)
(* or an unoccupied water cell (cause "Drowned in water"); on grass and on *)
(* an occupied water cell the player is alive.                             *)
(***************************************************************************)
C2_HazardEvaluation ==
    FrameEvaluated =>
        /\ game_over <=> (OnOccupiedRoad \/ OnFreeWater)
        /\ OnOccupiedRoad => game_over_reason = "Hit by a car"
        /\ OnFreeWater => game_over_reason = "Drowned in water"

C2_Witness ==
    /\ pc = "over"
    /\ OnOccupiedRoad
    /\ game_over_reason = "Hit by a car"

(***************************************************************************)
(* C3: an in-bounds move whose target is an occupied road cell ends the    *)
(* frame in the terminal state with cause "Hit by a car".                  *)
(***************************************************************************)
C3_MoveOntoCarIsFatal ==
    (/\ FrameEvaluated
     /\ InBoundsMove
     /\ HazardClass(LaneOf(gameboard, MoveTarget)) = "Lethal"
     /\ Occupied(gameboard, MoveTarget))
        => (game_over /\ game_over_reason = "Hit by a car")

(***************************************************************************)
(* C4: when update_player returns from a move whose target is an occupied  *)
(* grass cell (for 'w' at the frontier: the cell above the player, which   *)
(* the scroll brings under it), the player's position is the one it had    *)
(* and the game is not over.                                               *)
(***************************************************************************)
TargetIsTree ==
    \/ /\ InBoundsMove
       /\ HazardClass(LaneOf(gameboard, MoveTarget)) = "Safe"
       /\ Occupied(gameboard, MoveTarget)
    \/ /\ ScrollFrame
       /\ HazardClass(LaneOf(gameboard, prev_player)) = "Safe"
       /\ Occupied(gameboard, prev_player)

C4_TreeBlocksMove ==
    (pc = "check" /\ key # None /\ TargetIsTree)
        => (player = prev_player /\ ~game_over)

C4_Witness ==
    /\ pc = "check"
    /\ InBoundsMove
    /\ HazardClass(LaneOf(gameboard, MoveTarget)) = "Safe"
    /\ Occupied(gameboard, MoveTarget)
    /\ player = prev_player

(***************************************************************************)
(* C5: no two vertically adjacent rows of the board are scrolling lanes    *)
(* (Road or Stream) of the same hazard class.                              *)
(***************************************************************************)
C5_NoAdjacentSameHazard ==
    \A i \in 1..(Len(gameboard) - 1) :
        ~(/\ HazardClass(gameboard[i]) # "Safe"
          /\ HazardClass(gameboard[i]) = HazardClass(gameboard[i + 1]))

(***************************************************************************)
(* C6: the frame loop never waits for input: a frame that has reached      *)
(* update_player goes on to its hazard evaluation whether or not a key is  *)
(* pressed.                                                                *)
(***************************************************************************)
C6_FrameNeverWaitsForInput == (pc = "update") ~> (pc # "update")

(***************************************************************************)
(* C7: the objects randomized_objects returns for a water lane hold at     *)
(* least one occupied cell.                                                *)
(***************************************************************************)
C7_WaterHasLog ==
    (g_pc = "done" /\ g_env = WATER) => OccupiedCount(g_out) >= 1

C7_Witness ==
    /\ g_pc = "done"
    /\ g_env = WATER
    /\ OccupiedCount(g_draw) = 0
    /\ OccupiedCount(g_out) = 1

(***************************************************************************)
(* C8: the objects randomized_objects returns hold at most 3 occupied      *)
(* cells, whatever the lane's hazard class.                                *)
(***************************************************************************)
C8_AtMostThreeObjects == g_pc = "done" => OccupiedCount(g_out) <= 3

C8_Witness ==
    /\ g_pc = "done"
    /\ OccupiedCount(g_draw) > 3
    /\ OccupiedCount(g_out) = 3

(***************************************************************************)
(* C9: a move that commits onto an unoccupied water cell ends the frame in *)
(* the terminal state with cause "Drowned in water".                       *)
(***************************************************************************)
C9_MoveIntoWaterDrowns ==
    (/\ FrameEvaluated
     /\ key # None
     /\ player # prev_player
     /\ OnFreeWater)
        => (game_over /\ game_over_reason = "Drowned in water")

C9_Witness ==
    /\ pc = "over"
    /\ key # None
    /\ player # prev_player
    /\ OnFreeWater
    /\ game_over_reason = "Drowned in water"

(***************************************************************************)
(* C10: a forward move that commits (the player's position becomes the     *)
(* candidate) increments the score by exactly 1.                           *)
(***************************************************************************)
C10_ForwardCommitScores ==
    [][(pc = "update" /\ key' = Some("Up") /\ player' # player)
          => player_score' = player_score + 1]_vars

(***************************************************************************)
(* C11: 'w' pressed with the player on the frontier row scrolls the board: *)
(* the row at index 0 is removed, the other rows move down one index with  *)
(* their order and contents kept, one row that create_random_row can       *)
(* return is appended at the top index, the score grows by 1 and the       *)
(* player's coordinates stay what they were.                               *)
(***************************************************************************)
FrontierForward == pc = "update" /\ key' = Some("Up") /\ player[2] = FrontierRow

C11_FrontierForwardScrolls ==
    [][FrontierForward =>
          /\ Len(gameboard') = Len(gameboard)
          /\ SubSeq(gameboard', 1, Len(gameboard) - 1) = Tail(gameboard)
          /\ gameboard'[Len(gameboard)] \in RandomRows(last_row_type)
          /\ player_score' = player_score + 1
          /\ player' = player]_vars

C11_Witness ==
    /\ pc = "check"
    /\ ScrollFrame
    /\ player_score = 1
    /\ player = prev_player

(***************************************************************************)
(* C12: in every state of the game the board holds 7 rows and every row    *)
(* holds 14 cells.                                                         *)
(***************************************************************************)
C12_BoardShape ==
    /\ Len(gameboard) = 7
    /\ \A i \in 1..Len(gameboard) : Len(gameboard[i].objects) = 14

\* A state after a scroll and after a shift that drew an occupied cell.
C12_Witness ==
    /\ player_score = 1
    /\ injected = 1
    /\ Len(gameboard) = 7
    /\ \E i \in 1..Len(gameboard) :
          /\ HazardClass(gameboard[i]) # "Safe"
          /\ Len(gameboard[i].objects) = 14
          /\ gameboard[i].objects[1] \/ gameboard[i].objects[14]

(***************************************************************************)
(* C13: the state GameState::new builds has a grass bottom row with column *)
(* 7 unoccupied, the player at column 7 of row 0, score 0, and the game    *)
(* is not over.                                                            *)
(***************************************************************************)
FreshGame == pc = "tick" /\ frames = 0

C13_FreshGame ==
    FreshGame =>
        /\ HazardClass(gameboard[1]) = "Safe"
        /\ ~Occupied(gameboard, <<7, 0>>)
        /\ player = <<7, 0>>
        /\ player_score = 0
        /\ ~game_over

\* A fresh game in which the draws came up occupied at column 7 (row 1
\* keeps its tree there, the bottom row has it cleared).
C13_Witness ==
    /\ FreshGame
    /\ Occupied(gameboard, <<7, 1>>)
    /\ ~Occupied(gameboard, <<7, 0>>)
    /\ player = <<7, 0>>

(***************************************************************************)
(* C14: a tick() call on a grass row leaves the row's cells as they were   *)
(* and returns None, however many calls came before.                       *)
(***************************************************************************)
C14_GrassTickIsNoOp ==
    [][HazardClass(t_lane) = "Safe" =>
          /\ t_lane'.objects = t_lane.objects
          /\ t_result' = None]_vars

C14_Witness ==
    /\ HazardClass(t_lane) = "Safe"
    /\ t_calls >= 4
    /\ OccupiedCount(t_lane.objects) >= 1
    /\ t_result = None

(***************************************************************************)
(* C15: when the key consumed in a frame is Escape the process exits in    *)
(* that step: the board, the player, game_over and its reason are left as  *)
(* they were, and no step (no hazard evaluation) follows, whatever the     *)
(* player's cell is.                                                       *)
(***************************************************************************)
C15_EscapeExits ==
    [][/\ (pc = "update" /\ key' = Some("Escape")) =>
              /\ pc' = "exit"
              /\ UNCHANGED <<gameboard, player, player_score, game_over, game_over_reason>>
       /\ pc # "exit"]_vars

\* Escape consumed while the player's cell is a lethal one.
C15_Witness ==
    /\ pc = "exit"
    /\ key = Some("Escape")
    /\ OnOccupiedRoad \/ OnFreeWater
    /\ ~game_over

(***************************************************************************)
(* C16: once the listener task has failed (read_key() got Err and no       *)
(* handle is left) the frame in which it failed and every later frame have *)
(* no input: no key is consumed, update_player leaves position and score   *)
(* as they were and goes on to the hazard evaluation, no handle comes      *)
(* back, and run() neither exits nor stops: until the game is over or      *)
(* MaxFrames frames have run, its next step can always be taken.           *)
(***************************************************************************)
NoListener == jh = None
RunInProgress ==
    \/ pc \in {"update", "check"}
    \/ pc = "tick" /\ frames < MaxFrames

C16_ListenerFailureIsNoInput ==
    /\ [][/\ NoListener => NoListener'
          /\ NoListener' =>
                /\ key' = None
                /\ player' = player
                /\ player_score' = player_score
                /\ pc' # "exit"
          /\ (NoListener' /\ pc = "update") => pc' = "check"]_vars
    /\ []((NoListener /\ RunInProgress) => ENABLED <<Next>>_vars)

\* A frame that started and ended with no listener, several frames after
\* the failure, with the game still running.
C16_Witness ==
    /\ NoListener
    /\ listeners = {}
    /\ pc = "tick"
    /\ frames >= 4
    /\ ~game_over

(***************************************************************************)
(* C17: at most one listener task is outstanding at any moment (and it is  *)
(* the one whose handle the KeyReader holds); a frame consumes at most one *)
(* key; a listener is spawned only in the step that takes the key of the   *)
(* previous one.                                                           *)
(***************************************************************************)
KeyConsumed == pc = "update" /\ key' # None

C17_OneListenerOneKey ==
    /\ [](Cardinality(listeners) <= 1 /\ listeners = jh)
    /\ [][/\ KeyConsumed => (key = None /\ pc' # "update" /\ frames' = frames)
          /\ ~KeyConsumed =>
                /\ key' \in {key, None}
                /\ listeners' \subseteq listeners]_vars

\* The second key in a row has been consumed (the player has moved forward
\* twice) and one listener is outstanding.
C17_Witness ==
    /\ pc = "check"
    /\ key = Some("Up")
    /\ player = <<SpawnColumn, 2>>
    /\ Cardinality(listeners) = 1
    /\ listeners = jh

(***************************************************************************)
(* C18: the steps of a frame come in the order ticks, move resolution,     *)
(* hazard evaluation.  The tick step ticks every moving row and consumes   *)
(* no key; the move resolution follows it, ticks no row and decides no     *)
(* game over; the hazard evaluation follows the move resolution with the   *)
(* board, the player and the frame's key as the move resolution left them; *)
(* only then does the next frame (and the next key) come.                  *)
(***************************************************************************)
LanesTicked ==
    \A i \in 1..Len(gameboard) :
        HazardClass(gameboard[i]) # "Safe"
            => gameboard'[i].tick_count # gameboard[i].tick_count
NoLaneTicked ==
    \/ gameboard' = gameboard
    \/ SubSeq(gameboard', 1, Len(gameboard) - 1) = Tail(gameboard)

C18_FrameStepOrder ==
    [][/\ pc = "tick" =>
              (pc' = "update" /\ LanesTicked /\ key' = None /\ player' = player)
       /\ pc = "update" =>
              /\ pc' \in {"check", "exit"}
              /\ NoLaneTicked
              /\ UNCHANGED <<game_over, game_over_reason>>
       /\ pc = "check" =>
              /\ pc' \in {"tick", "over"}
              /\ UNCHANGED <<gameboard, player, key>>
       /\ pc \notin {"over", "exit"}]_vars

\* A frame with a committed move has been evaluated and the game goes on.
C18_Witness ==
    /\ pc = "tick"
    /\ frames >= 3
    /\ key # None
    /\ player # prev_player
    /\ HazardClass(LaneOf(gameboard, player)) # "Safe"
    /\ ~game_over

(***************************************************************************)
(* C19: an in-bounds move whose target is an occupied cell of a water row  *)
(* commits (the player's position becomes the target) and the player is    *)
(* alive after the frame's hazard evaluation.                              *)
(***************************************************************************)
C19_MoveOntoLogCommits ==
    (/\ FrameEvaluated
     /\ InBoundsMove
     /\ HazardClass(LaneOf(gameboard, MoveTarget)) = "LethalUnlessOccupied"
     /\ Occupied(gameboard, MoveTarget))
        => (player = MoveTarget /\ ~game_over)

(***************************************************************************)
(* C20: at every scroll, the first one included, the row appended at the   *)
(* top is not a water row when the topmost row before the append is a      *)
(* water row.                                                              *)
(***************************************************************************)
C20_NoWaterOnWaterAtScroll ==
    [][FrontierForward =>
          ~(/\ HazardClass(gameboard[Len(gameboard)]) = "LethalUnlessOccupied"
            /\ HazardClass(gameboard'[Len(gameboard')]) = "LethalUnlessOccupied")]_vars

(***************************************************************************)
(* C21: a tick() that shifts a moving row moves every cell by one index    *)
(* (towards index 0 when direction is true, away from it otherwise), drops *)
(* the cell at the exit edge and puts the value drawn by gen_bool in that  *)
(* call into the cell at the feed edge, whatever the dropped cell held.    *)
(***************************************************************************)
Shifted(old, new, fresh) ==
    /\ Len(new.objects) = Len(old.objects)
    /\ IF old.direction
       THEN /\ \A c \in 0..(LastColumn - 1) : At(new.objects, c) = At(old.objects, c + 1)
            /\ At(new.objects, LastColumn) = fresh
       ELSE /\ \A c \in 1..LastColumn : At(new.objects, c) = At(old.objects, c - 1)
            /\ At(new.objects, 0) = fresh

C22_GameOverEndsLoop ==
    game_over => (pc = "over" /\ ~ENABLED <<Next>>_vars)

\* The game ended with frames and the listener still available.
C22_Witness ==
    /\ game_over
    /\ pc = "over"
    /\ frames < MaxFrames
    /\ jh # None
    /\ player_score = 1

(***************************************************************************)
(* C23: the player's column is always in 0..13 and its row in 0..3; when   *)
(* the key of the frame asks for a move past the left, right or bottom     *)
(* edge, update_player leaves the position as it was (no wraparound).      *)
(***************************************************************************)
PastTheEdge ==
    \/ key = Some("Left") /\ prev_player[1] = 0
    \/ key = Some("Right") /\ prev_player[1] = LastColumn
    \/ key = Some("Down") /\ prev_player[2] = 0

C24_PlayerNeverOnTree ==
    ~(/\ HazardClass(LaneOf(gameboard, player)) = "Safe"
      /\ Occupied(gameboard, player))

(***************************************************************************)
(* C25: a water row always holds at least one occupied cell, after any     *)
(* number of shifts.                                                       *)
(***************************************************************************)
C25_WaterKeepsLog ==
    HazardClass(t_lane) = "LethalUnlessOccupied" => OccupiedCount(t_lane.objects) >= 1

(***************************************************************************)
(* C26: in src/main.rs a tick() that shifts a Stream or Road row rotates   *)
(* it: the row has 14 cells afterwards and as many occupied cells as       *)
(* before, for either direction and after any number of ticks.             *)
(***************************************************************************)
C26_MainTickRotates ==
    [][(HazardClass(t_lane) # "Safe" /\ t_result' # None) =>
          /\ Len(t_lane'.objects) = 14
          /\ OccupiedCount(t_lane'.objects) = OccupiedCount(t_lane.objects)]_vars

====
